---- MODULE Spec2Model ----
(***************************************************************************)
(* State-machine model of the flashing engine of Neural_Flasher            *)
(* (src/hooks/use-flasher.ts, the useFlasher hook).                        *)
(*                                                                         *)
(* The engine state is the FlasherState record held by useState plus the   *)
(* portRef reference.  The host's serial transport is modelled by the set  *)
(* of ports a user can pick, which of them are open, which have their      *)
(* writable stream locked by a writer, and the frames written so far.      *)
(* Every `await` on real I/O (writer.write, setTimeout) is a point where   *)
(* another call of the hook's API can run, so a flashFirmware call is a    *)
(* process with a position (pc); connect and disconnect are modelled as    *)
(* one step each.                                                          *)
(***************************************************************************)
EXTENDS Integers, Sequences, FiniteSets, TLC

(* ------------------------------ bounds -------------------------------- *)
MaxPorts  == 2      \* serial ports the user can choose from
MaxJobs   == 2      \* flashFirmware calls in one behaviour
MaxCalls  == 3      \* calls of the hook's API in one behaviour, of any kind
MaxChunks == 2      \* largest image, in chunks
MaxWire   == 4      \* frames written to the transport in one behaviour

(* ------------------------- program constants -------------------------- *)
ROM_LOADER_FLASH_BEGIN_CMD == 2
ROM_LOADER_FLASH_DATA_CMD  == 3
ROM_LOADER_FLASH_END_CMD   == 4
chunkSize     == 256
LogCap        == 100
DefaultOffset == 65536

Ports == 1..MaxPorts
Jobs  == 1..MaxJobs

\* image lengths: empty, exactly one chunk, and full chunks with a one-byte tail
ImageLens == {0, chunkSize, (MaxChunks - 1) * chunkSize + 1}
Offsets   == {DefaultOffset}

(* --------------------------- error messages --------------------------- *)
NoError        == "null"
NotConnected   == "Not connected to device"
PortNotWritable == "Port not writable"
StreamLocked   == "Cannot create writer when WritableStream is locked"
WriteIoError   == "The device has been lost"
Unsupported    == "Web Serial API not supported in this browser"
NoPortSelected == "No port selected by the user"
OpenFailed     == "Failed to open serial port"
AlreadyOpen    == "The port is already open"
PortNotReadable == "Port not readable"
ReadFailed     == "Read timeout or error"
StreamErrored  == "The stream is errored"

VARIABLES
  hasSerial,     \* navigator.serial exists
  portRef,       \* portRef.current: 0 is null, otherwise a port
  portOpen,      \* per port: opened (readable and writable are non-null)
  locked,        \* per port: a writer holds the lock of port.writable
  wire,          \* frames written to the transport, in order
  isConnected, isFlashing, progress, logs, error,   \* FlasherState
  jobs,          \* the flashFirmware calls
  calls,         \* number of calls of the hook's API made so far
  ret,           \* the latest call of the API; for a call that is one step,
                 \* whether it raised and with which message
  begin,         \* a BEGIN frame built apart from a job: fileData.length and
                 \* offset as unsigned 32-bit numbers, and the bytes built
  readerRef,     \* readerRef.current: 0 is null, otherwise the port whose
                 \* readable stream the reader locks
  readerErrored, \* the stream of the reader is errored (a read was rejected)
  dpc            \* position of a disconnect(): "idle", or "cancelling" at
                 \* its await of readerRef.current.cancel()

vars == <<hasSerial, portRef, portOpen, locked, wire,
          isConnected, isFlashing, progress, logs, error, jobs, calls, ret, begin,
          readerRef, readerErrored, dpc>>

(* ------------------------------ helpers ------------------------------- *)
Min(a, b) == IF a < b THEN a ELSE b

Last(s) == s[Len(s)]

\* a LogEntry: type, and the message as a tag with its text and numbers
Entry(type, tag, text, a, b) ==
  [type |-> type, tag |-> tag, text |-> text, a |-> a, b |-> b]

\* addLog: [...prev.logs, entry].slice(-100)
\* (a variant that cuts with slice(0, 100))
AddLogKeepOldest(l, e) ==
  LET s == Append(l, e) IN IF Len(s) > LogCap THEN SubSeq(s, 1, LogCap) ELSE s
addLog(l, e) ==
  LET s == Append(l, e) IN
  IF Len(s) > LogCap THEN SubSeq(s, Len(s) - LogCap + 1, Len(s)) ELSE s

\* (x >> 8k) & 0xff on a JavaScript number x with 0 <= x < 2^31, where
\* ToInt32 leaves x as it is
\* (a variant that takes the bytes from the most significant end)
ByteOfBigEndian(x, k) == (x \div (256 ^ (3 - k))) % 256
ByteOf(x, k) == (x \div (256 ^ k)) % 256

\* An unsigned 32-bit number is written <<hi, lo>>, its two 16-bit halves.
U32(hi, lo) == <<hi, lo>>
U32Halves == {0, 1, 255, 256, 32767, 32768, 65535}
U32Samples == {U32(hi, lo) : hi \in U32Halves, lo \in U32Halves}

\* the operand of >> is converted to a signed 32-bit integer: values from
\* 2^31 on wrap to negative ones
ToInt32(u) ==
  (IF u[1] >= 2 ^ 15 THEN u[1] - 2 ^ 16 ELSE u[1]) * 2 ^ 16 + u[2]

\* the frames; chunk is the range of the image that fileData.slice took
Frame(cmd, hdr, chunk) == [cmd |-> cmd, hdr |-> hdr, chunk |-> chunk]

flashBegin(n, off) ==
  Frame(ROM_LOADER_FLASH_BEGIN_CMD,
        <<ROM_LOADER_FLASH_BEGIN_CMD, 0, 0, 0, 0, 0, 0, 0,
          ByteOf(n, 0), ByteOf(n, 1), ByteOf(n, 2), ByteOf(n, 3),
          ByteOf(off, 0), ByteOf(off, 1), ByteOf(off, 2), ByteOf(off, 3)>>,
        <<0, 0>>)

\* Math.min(i + chunkSize, fileData.length)
\* (a variant without the Math.min)
ChunkEndNoMin(i, n) == i + chunkSize
ChunkEnd(i, n) == Min(i + chunkSize, n)

chunkData(i, n) ==
  LET len == ChunkEnd(i, n) - i IN
  Frame(ROM_LOADER_FLASH_DATA_CMD,
        <<ROM_LOADER_FLASH_DATA_CMD, ByteOf(len, 0), ByteOf(len, 1), 0>>,
        <<i, ChunkEnd(i, n)>>)

flashEnd == Frame(ROM_LOADER_FLASH_END_CMD, <<ROM_LOADER_FLASH_END_CMD, 0>>, <<0, 0>>)

\* Math.round((progress / fileData.length) * 100); 0/0 is NaN, written -1
Percentage(p, n) == IF n = 0 THEN -1 ELSE (200 * p + n) \div (2 * n)

Progress(c, t, pct) == [current |-> c, total |-> t, percentage |-> pct]

\* progress: { current: 0, total: fileData.length, percentage: 0 }
\* (a variant that sets the new total and keeps the old current)
StartProgressKeepCurrent(n) == Progress(progress.current, n, 0)
StartProgress(n) == Progress(0, n, 0)

ChunkProgress(i, n) == Progress(ChunkEnd(i, n), n, Percentage(ChunkEnd(i, n), n))

\* the progress of lines 219-227
\* (a variant that computes the percentage with the total == 0 convention)
FinalProgressRounded(n) == Progress(n, n, IF n = 0 THEN 0 ELSE Percentage(n, n))
FinalProgress(n) == Progress(n, n, 100)

\* for (let i = 0; i < fileData.length; i += chunkSize)
LoopContinues(i, n) == i < n

\* if (!portRef.current) throw new Error('Not connected to device')
NotConnectedGuard == portRef = 0

\* write(): what the synchronous part of write() finds
WriteStatus ==
  IF portRef = 0 \/ ~portOpen[portRef] THEN PortNotWritable
  ELSE IF locked[portRef] THEN StreamLocked
  ELSE "ok"

IdleJob == [pc |-> "idle", phase |-> "none", n |-> 0, off |-> 0, i |-> 0,
            wport |-> 0, err |-> NoError,
            connAtCall |-> FALSE, flashingAtCall |-> FALSE]

Ret(op, raised, msg) == [op |-> op, raised |-> raised, msg |-> msg]

(* ------------------------------- Init --------------------------------- *)
NoBegin == [len |-> U32(0, 0), off |-> U32(0, 0), hdr |-> <<>>]

Init ==
  /\ hasSerial \in BOOLEAN
  /\ portRef = 0
  /\ portOpen = [p \in Ports |-> FALSE]
  /\ locked = [p \in Ports |-> FALSE]
  /\ wire = <<>>
  /\ isConnected = FALSE
  /\ isFlashing = FALSE
  /\ progress = Progress(0, 0, 0)
  /\ logs = <<>>
  /\ error = NoError
  /\ jobs = [j \in Jobs |-> IdleJob]
  /\ calls = 0
  /\ ret = Ret("none", FALSE, NoError)
  /\ begin = NoBegin
  /\ readerRef = 0 /\ readerErrored = FALSE /\ dpc = "idle"

(* ------------------ flashFirmware: the failure path -------------------- *)
\* catch (error): setState({...prev, isFlashing: false, error: message})
\* (a variant that leaves isFlashing as it is)
CatchStateKeepFlashing(msg) == [isFlashing |-> isFlashing, error |-> msg]
CatchState(msg) == [isFlashing |-> FALSE, error |-> msg]

\* the log entry of the catch block
FlashErrorLog(msg) == Entry("error", "Flash error", msg, 0, 0)

\* catch block of flashFirmware, reached by job j with the failure msg;
\* jb is the job as the step has left it, lg the log as the step has left it
Catch(j, jb, lg, msg) ==
  /\ isFlashing' = CatchState(msg).isFlashing
  /\ error' = CatchState(msg).error
  /\ logs' = addLog(lg, FlashErrorLog(msg))
  /\ jobs' = [jobs EXCEPT ![j] = [jb EXCEPT !.pc = "failed", !.err = msg]]

\* await write(frame), up to the await of writer.write: the port must be
\* writable and its stream unlocked, then a writer takes the lock.
\* fl and er are the isFlashing and error the step has set before the write.
BeginWrite(j, jb, lg, fl, er) ==
  IF WriteStatus = "ok"
  THEN /\ locked' = [locked EXCEPT ![portRef] = TRUE]
       /\ jobs' = [jobs EXCEPT ![j] = [jb EXCEPT !.pc = "writing", !.wport = portRef]]
       /\ logs' = lg
       /\ isFlashing' = fl
       /\ error' = er
  ELSE /\ Catch(j, jb, lg, WriteStatus)
       /\ UNCHANGED locked

\* the frame a job in phase ph at index i writes
FrameOf(jb) ==
  CASE jb.phase = "BEGIN" -> flashBegin(jb.n, jb.off)
    [] jb.phase = "DATA"  -> chunkData(jb.i, jb.n)
    [] jb.phase = "END"   -> flashEnd

\* after the BEGIN delay and after each chunk: the next frame is a DATA
\* frame while the loop condition holds, the END frame after it
NextPhase(i, n) == IF LoopContinues(i, n) THEN "DATA" ELSE "END"

(* ------------------------------ actions ------------------------------- *)
\* flashFirmware(fileData, offset) is called: lines 145-183, up to the
\* await inside write(flashBegin)
FlashCall(j, n, off) ==
  /\ jobs[j].pc = "idle"
  /\ \A k \in Jobs : k < j => jobs[k].pc # "idle"
  /\ calls < MaxCalls
  /\ calls' = calls + 1
  /\ LET jb == [IdleJob EXCEPT !.n = n, !.off = off, !.phase = "BEGIN",
                               !.connAtCall = isConnected,
                               !.flashingAtCall = isFlashing]
     IN
     IF NotConnectedGuard
     THEN /\ jobs' = [jobs EXCEPT ![j] = [jb EXCEPT !.pc = "failed", !.err = NotConnected]]
          /\ UNCHANGED <<isFlashing, error, progress, logs, locked>>
     ELSE /\ progress' = StartProgress(n)
          /\ BeginWrite(j, jb,
               addLog(addLog(addLog(logs,
                 Entry("info", "Starting firmware flash", "", 0, 0)),
                 Entry("info", "File size", "", n, 0)),
                 Entry("info", "Flash offset", "", off, 0)),
               TRUE, NoError)
  /\ ret' = Ret("flashFirmware", FALSE, NoError)
  /\ UNCHANGED <<hasSerial, begin, readerRef, readerErrored, dpc, portRef, portOpen, wire, isConnected>>

\* writer.write(data) resolves: the frame is on the wire, the lock released
WriteDone(j) ==
  /\ jobs[j].pc = "writing"
  /\ Len(wire) < MaxWire
  /\ wire' = Append(wire, [port |-> jobs[j].wport, by |-> j, frame |-> FrameOf(jobs[j])])
  /\ locked' = [locked EXCEPT ![jobs[j].wport] = FALSE]
  /\ jobs' = [jobs EXCEPT ![j].pc = "waiting"]
  /\ UNCHANGED <<hasSerial, begin, readerRef, readerErrored, dpc, portRef, portOpen, isConnected, isFlashing,
                 progress, logs, error, calls, ret>>

\* writer.write(data) rejects: the lock is released (finally), then the catch
WriteFail(j) ==
  /\ jobs[j].pc = "writing"
  /\ locked' = [locked EXCEPT ![jobs[j].wport] = FALSE]
  /\ Catch(j, jobs[j], logs, WriteIoError)
  /\ UNCHANGED <<hasSerial, begin, readerRef, readerErrored, dpc, portRef, portOpen, wire, isConnected, progress, calls, ret>>

\* the 100 ms delay after BEGIN elapses: the loop starts at i = 0
AfterBeginDelay(j) ==
  /\ jobs[j].pc = "waiting" /\ jobs[j].phase = "BEGIN"
  /\ BeginWrite(j, [jobs[j] EXCEPT !.i = 0, !.phase = NextPhase(0, jobs[j].n)],
                logs, isFlashing, error)
  /\ UNCHANGED <<hasSerial, begin, readerRef, readerErrored, dpc, portRef, portOpen, wire, isConnected, progress, calls, ret>>

\* the 50 ms delay after a DATA frame elapses: progress update, log line,
\* i += chunkSize, and the next write
\* (a variant that logs i + chunkSize instead of the clamped count)
AfterDataDelayLogsUnclamped(j) ==
  /\ jobs[j].pc = "waiting" /\ jobs[j].phase = "DATA"
  /\ LET jb == jobs[j]
         i2 == jb.i + chunkSize
     IN /\ progress' = ChunkProgress(jb.i, jb.n)
        /\ BeginWrite(j, [jb EXCEPT !.i = i2, !.phase = NextPhase(i2, jb.n)],
                      addLog(logs, Entry("info", "Flashed", "", i2, jb.n)),
                      isFlashing, error)
  /\ UNCHANGED <<hasSerial, begin, readerRef, readerErrored, dpc, portRef, portOpen, wire, isConnected, calls, ret>>
AfterDataDelay(j) ==
  /\ jobs[j].pc = "waiting" /\ jobs[j].phase = "DATA"
  /\ LET jb == jobs[j]
         p  == ChunkEnd(jb.i, jb.n)
         i2 == jb.i + chunkSize
     IN /\ progress' = ChunkProgress(jb.i, jb.n)
        /\ BeginWrite(j, [jb EXCEPT !.i = i2, !.phase = NextPhase(i2, jb.n)],
                      addLog(logs, Entry("info", "Flashed", "", p, jb.n)),
                      isFlashing, error)
  /\ UNCHANGED <<hasSerial, begin, readerRef, readerErrored, dpc, portRef, portOpen, wire, isConnected, calls, ret>>

\* the 500 ms delay after END elapses: lines 219-229
\* (a variant whose final setState leaves isFlashing as it is)
AfterEndDelayKeepsFlashing(j) ==
  /\ jobs[j].pc = "waiting" /\ jobs[j].phase = "END"
  /\ progress' = FinalProgress(jobs[j].n)
  /\ logs' = addLog(logs, Entry("success", "Firmware flash completed", "", 0, 0))
  /\ jobs' = [jobs EXCEPT ![j].pc = "done"]
  /\ UNCHANGED <<hasSerial, begin, readerRef, readerErrored, dpc, portRef, portOpen, locked, wire, isConnected,
                 isFlashing, error, calls, ret>>

AfterEndDelay(j) ==
  /\ jobs[j].pc = "waiting" /\ jobs[j].phase = "END"
  /\ isFlashing' = FALSE
  /\ progress' = FinalProgress(jobs[j].n)
  /\ logs' = addLog(logs, Entry("success", "Firmware flash completed", "", 0, 0))
  /\ jobs' = [jobs EXCEPT ![j].pc = "done"]
  /\ UNCHANGED <<hasSerial, begin, readerRef, readerErrored, dpc, portRef, portOpen, locked, wire, isConnected,
                 error, calls, ret>>

\* connect(): lines 56-83.  choice is the port the user picks, 0 when the
\* request is refused; openOk is whether port.open succeeds on a closed port
\* (a variant of the catch block that marks the engine connected)
ConnectFailureSetsConnected(msg) ==
  /\ error' = msg
  /\ logs' = addLog(logs, Entry("error", "Connection failed", msg, 0, 0))
  /\ ret' = Ret("connect", TRUE, msg)
  /\ isConnected' = TRUE
  /\ UNCHANGED portOpen
ConnectFailure(msg) ==
  /\ error' = msg
  /\ logs' = addLog(logs, Entry("error", "Connection failed", msg, 0, 0))
  /\ ret' = Ret("connect", TRUE, msg)
  /\ UNCHANGED <<isConnected, portOpen>>

Connect(choice, openOk) ==
  /\ calls < MaxCalls
  /\ calls' = calls + 1
  /\ IF ~hasSerial
     THEN ConnectFailure(Unsupported) /\ UNCHANGED portRef
     ELSE IF choice = 0
     THEN ConnectFailure(NoPortSelected) /\ UNCHANGED portRef
     ELSE /\ portRef' = choice
          /\ IF portOpen[choice] THEN ConnectFailure(AlreadyOpen)
             ELSE IF ~openOk THEN ConnectFailure(OpenFailed)
             ELSE /\ portOpen' = [portOpen EXCEPT ![choice] = TRUE]
                  /\ isConnected' = TRUE
                  /\ error' = NoError
                  /\ logs' = addLog(logs, Entry("success", "Connected to device", "", 0, 0))
                  /\ ret' = Ret("connect", FALSE, NoError)
  /\ UNCHANGED <<hasSerial, begin, readerRef, readerErrored, dpc, locked, wire, isFlashing, progress, jobs>>

\* disconnect(): lines 85-105.  close() is attempted on an open port; it
\* rejects while a stream of the port is locked, and may reject otherwise
\* (a variant without the try/catch around close: a rejected close raises)
DisconnectRaisingOnCloseFailure(closeOk) ==
  /\ calls < MaxCalls
  /\ calls' = calls + 1
  /\ IF portRef # 0 /\ portOpen[portRef]
     THEN /\ locked[portRef] => ~closeOk
          /\ portOpen' = [portOpen EXCEPT ![portRef] = ~closeOk]
          /\ IF closeOk
             THEN /\ isConnected' = FALSE
                  /\ logs' = addLog(logs, Entry("info", "Disconnected from device", "", 0, 0))
                  /\ ret' = Ret("disconnect", FALSE, NoError)
             ELSE /\ ret' = Ret("disconnect", TRUE, "close failed")
                  /\ UNCHANGED <<isConnected, logs>>
     ELSE /\ closeOk
          /\ isConnected' = FALSE
          /\ logs' = addLog(logs, Entry("info", "Disconnected from device", "", 0, 0))
          /\ ret' = Ret("disconnect", FALSE, NoError)
          /\ UNCHANGED portOpen
  /\ UNCHANGED <<hasSerial, begin, readerRef, readerErrored, dpc, portRef, locked, wire, isFlashing, progress, error, jobs>>
Disconnect(closeOk) ==
  /\ calls < MaxCalls
  /\ calls' = calls + 1
  /\ IF portRef # 0 /\ portOpen[portRef]
     THEN /\ locked[portRef] => ~closeOk
          /\ portOpen' = [portOpen EXCEPT ![portRef] = ~closeOk]
     ELSE /\ closeOk
          /\ UNCHANGED portOpen
  /\ isConnected' = FALSE
  /\ logs' = addLog(logs, Entry("info", "Disconnected from device", "", 0, 0))
  /\ ret' = Ret("disconnect", FALSE, NoError)
  /\ UNCHANGED <<hasSerial, begin, readerRef, readerErrored, dpc, portRef, locked, wire, isFlashing, progress, error, jobs>>

\* addLog(message, type) called by an external collaborator
AddLogCall(type) ==
  /\ calls < MaxCalls
  /\ calls' = calls + 1
  /\ logs' = addLog(logs, Entry(type, "external", "", calls, 0))
  /\ ret' = Ret("addLog", FALSE, NoError)
  /\ UNCHANGED <<hasSerial, begin, readerRef, readerErrored, dpc, portRef, portOpen, locked, wire, isConnected,
                 isFlashing, progress, error, jobs>>

\* clearLogs(): lines 244-249
\* (a variant that resets the whole state but the connection)
ClearLogsResetsAll ==
  /\ calls < MaxCalls
  /\ calls' = calls + 1
  /\ logs' = <<>>
  /\ progress' = Progress(0, 0, 0)
  /\ error' = NoError
  /\ ret' = Ret("clearLogs", FALSE, NoError)
  /\ UNCHANGED <<hasSerial, begin, readerRef, readerErrored, dpc, portRef, portOpen, locked, wire, isConnected,
                 isFlashing, jobs>>
ClearLogs ==
  /\ calls < MaxCalls
  /\ calls' = calls + 1
  /\ logs' = <<>>
  /\ ret' = Ret("clearLogs", FALSE, NoError)
  /\ UNCHANGED <<hasSerial, begin, readerRef, readerErrored, dpc, portRef, portOpen, locked, wire, isConnected,
                 isFlashing, progress, error, jobs>>

Next ==
  \/ \E j \in Jobs, n \in ImageLens, off \in Offsets : FlashCall(j, n, off)
  \/ \E j \in Jobs : WriteDone(j)
  \/ \E j \in Jobs : WriteFail(j)
  \/ \E j \in Jobs : AfterBeginDelay(j)
  \/ \E j \in Jobs : AfterDataDelay(j)
  \/ \E j \in Jobs : AfterEndDelay(j)
  \/ \E choice \in 0..MaxPorts, openOk \in BOOLEAN : Connect(choice, openOk)
  \/ \E closeOk \in BOOLEAN : Disconnect(closeOk)
  \/ \E type \in {"warning", "error"} : AddLogCall(type)
  \/ ClearLogs

Spec == Init /\ [][Next]_vars

TypeOK ==
  /\ portRef \in 0..MaxPorts
  /\ isConnected \in BOOLEAN /\ isFlashing \in BOOLEAN
  /\ calls \in 0..MaxCalls
  /\ \A j \in Jobs : jobs[j].pc \in {"idle", "writing", "waiting", "done", "failed"}


(* ------- the engine with a log one entry short of its capacity ------- *)
\* the log after len addLog calls of an external collaborator
Prefilled(len) == [m \in 1..len |-> Entry("info", "external", "", m - LogCap - 1, 0)]

InitLog ==
  /\ hasSerial = TRUE
  /\ portRef = 0
  /\ portOpen = [p \in Ports |-> FALSE]
  /\ locked = [p \in Ports |-> FALSE]
  /\ wire = <<>>
  /\ isConnected = FALSE
  /\ isFlashing = FALSE
  /\ progress = Progress(0, 0, 0)
  /\ logs = Prefilled(LogCap - 1)
  /\ error = NoError
  /\ jobs = [j \in Jobs |-> IdleJob]
  /\ calls = 0
  /\ ret = Ret("none", FALSE, NoError)
  /\ begin = NoBegin
  /\ readerRef = 0 /\ readerErrored = FALSE /\ dpc = "idle"

SpecLog == InitLog /\ [][Next]_vars

(* Every pending transport write eventually completes or fails, and every   *)
(* setTimeout delay eventually fires and lets the call go on. A call is at  *)
(* one await at a time, so the steps of one call are never enabled together. *)
JobStep(j) ==
  \/ WriteDone(j) \/ WriteFail(j)
  \/ AfterBeginDelay(j) \/ AfterDataDelay(j) \/ AfterEndDelay(j)

Fairness == \A j \in Jobs : WF_vars(JobStep(j))

\* the state after a first connect() that opened port 1
InitFair ==
  /\ hasSerial = TRUE
  /\ portRef = 1
  /\ portOpen = [p \in Ports |-> p = 1]
  /\ locked = [p \in Ports |-> FALSE]
  /\ wire = <<>>
  /\ isConnected = TRUE
  /\ isFlashing = FALSE
  /\ progress = Progress(0, 0, 0)
  /\ logs = addLog(<<>>, Entry("success", "Connected to device", "", 0, 0))
  /\ error = NoError
  /\ jobs = [j \in Jobs |-> IdleJob]
  /\ calls = 1
  /\ ret = Ret("connect", FALSE, NoError)
  /\ begin = NoBegin
  /\ readerRef = 0 /\ readerErrored = FALSE /\ dpc = "idle"

\* flashFirmware calls, overlapping ones included, and disconnect() at any
\* moment of them
NextFair ==
  \/ \E j \in Jobs, n \in ImageLens, off \in Offsets : FlashCall(j, n, off)
  \/ \E j \in Jobs : WriteDone(j)
  \/ \E j \in Jobs : WriteFail(j)
  \/ \E j \in Jobs : AfterBeginDelay(j)
  \/ \E j \in Jobs : AfterDataDelay(j)
  \/ \E j \in Jobs : AfterEndDelay(j)
  \/ \E closeOk \in BOOLEAN : Disconnect(closeOk)

SpecFair == InitFair /\ [][NextFair]_vars /\ Fairness

(* read() and the reader branch of disconnect(). The hook defines read but *)
(* does not return it, so readerRef.current stays null under Next; NextRead *)
(* adds read as an operation and disconnect with its await of cancel().     *)
\* read(): one call, the await of reader.read() included; ok is whether the
\* read was fulfilled. A rejected read leaves the stream errored, and a
\* cancelled stream that is not errored fulfils every read with done.
Read(ok) ==
  /\ calls < MaxCalls
  /\ calls' = calls + 1
  /\ IF portRef = 0 \/ ~portOpen[portRef]
     THEN /\ ret' = Ret("read", TRUE, PortNotReadable)
          /\ UNCHANGED <<readerRef, readerErrored>>
     ELSE /\ readerRef' = IF readerRef = 0 THEN portRef ELSE readerRef
          /\ (readerRef # 0 /\ readerErrored) => ~ok
          /\ (readerRef # 0 /\ dpc = "cancelling" /\ ~readerErrored) => ok
          /\ readerErrored' = ~ok
          /\ ret' = IF ok THEN Ret("read", FALSE, NoError)
                         ELSE Ret("read", TRUE, ReadFailed)
  /\ UNCHANGED <<hasSerial, begin, dpc, portRef, portOpen, locked, wire, isConnected,
                 isFlashing, progress, logs, error, jobs>>

\* disconnect() with readerRef.current null
DisconnectNoReader(closeOk) ==
  /\ readerRef = 0
  /\ Disconnect(closeOk)

\* disconnect() with a reader: up to the await of readerRef.current.cancel()
DisconnectCancel ==
  /\ readerRef # 0 /\ dpc = "idle"
  /\ calls < MaxCalls
  /\ calls' = calls + 1
  /\ dpc' = "cancelling"
  /\ ret' = Ret("disconnect", FALSE, NoError)
  /\ UNCHANGED <<hasSerial, begin, readerRef, readerErrored, portRef, portOpen, locked,
                 wire, isConnected, isFlashing, progress, logs, error, jobs>>

\* the await of cancel() ends: rejected for an errored stream, and the call
\* raises there; otherwise readerRef.current = null, then the close, the
\* setState and the log entry as without a reader
CancelDone(closeOk) ==
  /\ dpc = "cancelling"
  /\ dpc' = "idle"
  /\ IF readerErrored
     THEN /\ ret' = Ret("disconnect", TRUE, StreamErrored)
          /\ UNCHANGED <<readerRef, readerErrored, portOpen, isConnected, logs>>
     ELSE /\ readerRef' = 0 /\ readerErrored' = FALSE
          /\ IF portRef # 0 /\ portOpen[portRef]
             THEN /\ locked[portRef] => ~closeOk
                  /\ portOpen' = [portOpen EXCEPT ![portRef] = ~closeOk]
             ELSE /\ closeOk
                  /\ UNCHANGED portOpen
          /\ isConnected' = FALSE
          /\ logs' = addLog(logs, Entry("info", "Disconnected from device", "", 0, 0))
          /\ ret' = Ret("disconnect", FALSE, NoError)
  /\ UNCHANGED <<hasSerial, begin, portRef, locked, wire, isFlashing, progress,
                 error, jobs, calls>>

NextRead ==
  \/ \E j \in Jobs, n \in ImageLens, off \in Offsets : FlashCall(j, n, off)
  \/ \E j \in Jobs : WriteDone(j)
  \/ \E j \in Jobs : WriteFail(j)
  \/ \E j \in Jobs : AfterBeginDelay(j)
  \/ \E j \in Jobs : AfterDataDelay(j)
  \/ \E j \in Jobs : AfterEndDelay(j)
  \/ \E choice \in 0..MaxPorts, openOk \in BOOLEAN : Connect(choice, openOk)
  \/ \E closeOk \in BOOLEAN : DisconnectNoReader(closeOk)
  \/ DisconnectCancel
  \/ \E closeOk \in BOOLEAN : CancelDone(closeOk)
  \/ \E ok \in BOOLEAN : Read(ok)

SpecRead == Init /\ [][NextRead]_vars

(* The BEGIN frame as a function of fileData.length and offset, over the    *)
(* unsigned 32-bit range: the inputs are drawn from U32Samples and the      *)
(* frame is built as flashFirmware builds it.                                *)
InitFrame ==
  /\ hasSerial = TRUE
  /\ portRef = 0
  /\ portOpen = [p \in Ports |-> FALSE]
  /\ locked = [p \in Ports |-> FALSE]
  /\ wire = <<>>
  /\ isConnected = FALSE
  /\ isFlashing = FALSE
  /\ progress = Progress(0, 0, 0)
  /\ logs = <<>>
  /\ error = NoError
  /\ jobs = [j \in Jobs |-> IdleJob]
  /\ calls = 0
  /\ ret = Ret("none", FALSE, NoError)
  /\ begin \in [len : U32Samples, off : U32Samples, hdr : {<<>>}]
  /\ readerRef = 0 /\ readerErrored = FALSE /\ dpc = "idle"

BuildBegin ==
  /\ begin.hdr = <<>>
  /\ begin' = [begin EXCEPT
                 !.hdr = flashBegin(ToInt32(begin.len), ToInt32(begin.off)).hdr]
  /\ UNCHANGED <<hasSerial, portRef, portOpen, locked, wire, isConnected,
                 isFlashing, progress, logs, error, jobs, calls, ret,
                 readerRef, readerErrored, dpc>>

NextFrame == BuildBegin

SpecFrame == InitFrame /\ [][NextFrame]_vars

(* --------------------- vocabulary of the properties ------------------- *)
\* the frames job j has written, in the order it wrote them
FramesBy(j) ==
  LET mine == SelectSeq(wire, LAMBDA w : w.by = j)
  IN [m \in 1..Len(mine) |-> mine[m].frame]

Called(j)  == jobs[j].pc # "idle"
Running(j) == jobs[j].pc \in {"writing", "waiting"}

\* steps in which the call j raises to its caller / returns normally
Raises(j)    == jobs[j].pc # "failed" /\ jobs'[j].pc = "failed"
Completes(j) == jobs[j].pc # "done" /\ jobs'[j].pc = "done"

ErrCount(l) == Cardinality({m \in 1..Len(l) : l[m].type = "error"})

WriteErrors == {PortNotWritable, StreamLocked, WriteIoError}

\* no frame of one job lies between two frames of another job
NoInterleaving ==
  \A a, b, c \in 1..Len(wire) :
    (a < b /\ b < c /\ wire[a].by = wire[c].by) => wire[b].by = wire[a].by

(* ------------------------------- C1 ----------------------------------- *)
\* C1: a flashFirmware call made while connected == false fails with
\* 'Not connected to device' and writes nothing to the transport.
C1_DisconnectedCallRejected ==
  \A j \in Jobs :
    (Called(j) /\ ~jobs[j].connAtCall) =>
      /\ jobs[j].pc = "failed"
      /\ jobs[j].err = NotConnected
      /\ FramesBy(j) = <<>>

(* ------------------------------- C2 ----------------------------------- *)
\* C2: a flashFirmware call made while flashing == true is rejected, and the
\* frames on the transport are never an interleaving of two jobs' frames.
C2_OverlappingCallRejected ==
  /\ \A j \in Jobs :
       (Called(j) /\ jobs[j].flashingAtCall) =>
         (jobs[j].pc = "failed" /\ FramesBy(j) = <<>>)
  /\ NoInterleaving

(* ------------------------------- C3 ----------------------------------- *)
\* C3: when a write of a job fails (BEGIN, DATA or END), the step that ends
\* the call leaves flashing false and error equal to the failure message,
\* appends exactly one error entry (the last one), writes nothing, and the
\* call raises that message; a call that has raised writes no frame later.
C3_WriteFailureAborts ==
  [][\A j \in Jobs :
       /\ (Raises(j) /\ jobs'[j].err \in WriteErrors) =>
            /\ isFlashing' = FALSE
            /\ error' = jobs'[j].err
            /\ ErrCount(logs') = ErrCount(logs) + 1
            /\ Last(logs') = Entry("error", "Flash error", jobs'[j].err, 0, 0)
            /\ wire' = wire
       /\ jobs[j].pc = "failed" =>
            (jobs'[j] = jobs[j] /\ FramesBy(j)' = FramesBy(j))
    ]_vars

\* the write of the second DATA frame of a 257-byte image has failed
C3_Witness ==
  \E j \in Jobs :
    /\ jobs[j].pc = "failed" /\ jobs[j].err = WriteIoError
    /\ jobs[j].phase = "DATA" /\ jobs[j].i = chunkSize
    /\ Len(FramesBy(j)) = 2
    /\ ~isFlashing /\ error = WriteIoError

(* ------------------------------- C4 ----------------------------------- *)
\* the frames the specification expects for an image of n bytes at offset off
CeilDiv(a, b) == (a + b - 1) \div b

ExpectedChunkLen(k, n) ==
  IF k < CeilDiv(n, chunkSize) \/ n % chunkSize = 0 THEN chunkSize ELSE n % chunkSize

ExpectedData(k, n) ==
  LET len == ExpectedChunkLen(k, n)
      from == (k - 1) * chunkSize
  IN [cmd |-> 3, hdr |-> <<3, len % 256, len \div 256, 0>>, chunk |-> <<from, from + len>>]

ExpectedFrames(n, off) ==
  <<flashBegin(n, off)>>
    \o [k \in 1..CeilDiv(n, chunkSize) |-> ExpectedData(k, n)]
    \o <<[cmd |-> 4, hdr |-> <<4, 0>>, chunk |-> <<0, 0>>]>>

\* C4: a successful flashFirmware of n bytes has written one BEGIN frame,
\* then ceil(n/256) DATA frames with the consecutive 256-byte slices of the
\* image (the last one n mod 256 bytes when that is not 0), then one END
\* frame; none of them a DATA frame when n = 0.
C4_FrameSequence ==
  \A j \in Jobs :
    jobs[j].pc = "done" => FramesBy(j) = ExpectedFrames(jobs[j].n, jobs[j].off)

\* a 257-byte image has been flashed: chunks of 256 bytes and of 1 byte
C4_Witness ==
  \E j \in Jobs :
    /\ jobs[j].pc = "done" /\ jobs[j].n = chunkSize + 1
    /\ Len(FramesBy(j)) = 4
    /\ FramesBy(j)[3].chunk = <<chunkSize, chunkSize + 1>>

(* ------------------------------- C5 ----------------------------------- *)
\* C5: the step in which a flashFirmware call completes successfully leaves
\* progress.current = progress.total = len(image) and percentage = 100.
C5_ProgressOnSuccess ==
  [][\A j \in Jobs :
       Completes(j) =>
         /\ progress'.current = jobs[j].n
         /\ progress'.total = jobs[j].n
         /\ progress'.percentage = 100
    ]_vars

\* a flash of the empty image and nothing after it
C5_Witness ==
  \E j \in Jobs :
    /\ jobs[j].pc = "done" /\ jobs[j].n = 0
    /\ progress = [current |-> 0, total |-> 0, percentage |-> 100]

(* ------------------------------- C6 ----------------------------------- *)
\* C6: percentage is 100 only when current = total.
C6_HundredOnlyWhenComplete ==
  progress.percentage = 100 => progress.current = progress.total

(* ------------------------------- C7 ----------------------------------- *)
\* C7: total = 0 implies percentage = 0.
C7_ZeroTotalZeroPercent ==
  progress.total = 0 => progress.percentage = 0

(* ------------------------------- C8 ----------------------------------- *)
\* a step in which job j updates progress: after a chunk, or on completion
UpdatesProgress(j) ==
  /\ jobs[j].pc = "waiting" /\ jobs[j].phase \in {"DATA", "END"}
  /\ jobs'[j] # jobs[j]

\* C8: every progress update of a job leaves progress.current at least its
\* previous value and at most progress.total.
C8_CurrentMonotonic ==
  [][\A j \in Jobs :
       UpdatesProgress(j) =>
         /\ progress'.current >= progress.current
         /\ progress'.current <= progress'.total
    ]_vars

(* ------------------------------- C9 ----------------------------------- *)
\* logs' is logs with k entries appended, cut to the last LogCap entries
AppendedKeepingOrder(k) ==
  LET kept == Len(logs') - k
  IN /\ Len(logs') = Min(Len(logs) + k, LogCap)
     /\ kept >= 0
     /\ SubSeq(logs', 1, kept) = SubSeq(logs, Len(logs) - kept + 1, Len(logs))

\* C9: the log never has more than 100 entries; every step other than
\* clearLogs keeps the old entries in order, dropping only the oldest; an
\* addLog onto a full log drops exactly the oldest entry and puts the new
\* entry last.
C9_LogBounded ==
  /\ [](Len(logs) <= LogCap)
  /\ [][/\ (ret'.op # "clearLogs" \/ calls' = calls) =>
             (logs' = logs \/ \E k \in 1..4 : AppendedKeepingOrder(k))
        /\ (ret'.op = "addLog" /\ calls' # calls /\ Len(logs) = LogCap) =>
             /\ logs' = Append(Tail(logs), Last(logs'))
             /\ Last(logs').tag = "external" /\ Last(logs').a = calls
       ]_vars

\* an addLog call has appended onto a full log: the oldest entry is gone
C9_Witness ==
  /\ Len(logs) = LogCap
  /\ ret.op = "addLog"
  /\ logs[1].a > -LogCap /\ logs[1].a < 0
  /\ Last(logs).a = calls - 1

(* ------------------------------- C10 ---------------------------------- *)
\* C10: every connect or flashFirmware call that raises has, in the step in
\* which it raises, stored the message in error and appended an error entry.
C10_FailureLoggedAndStored ==
  [][/\ \A j \in Jobs :
          Raises(j) =>
            /\ error' = jobs'[j].err
            /\ Len(logs') > 0 /\ Last(logs').type = "error"
            /\ Last(logs').text = jobs'[j].err
     /\ (ret'.op = "connect" /\ ret'.raised /\ calls' # calls) =>
            /\ error' = ret'.msg
            /\ Len(logs') > 0 /\ Last(logs').type = "error"
            /\ Last(logs').text = ret'.msg
    ]_vars


(* ------------------------------- C11 ---------------------------------- *)
\* the step is a call of the named one-step operation of the API
CallOf(op) == ret'.op = op /\ calls' = calls + 1

ConnectErrors == {Unsupported, NoPortSelected, OpenFailed, AlreadyOpen}

\* C11: a connect called while connected is false ends connected, with error
\* cleared, only when it has opened a port that was closed; in every other
\* case (no serial capability, request refused, open rejected) it raises,
\* connected stays false, error holds the message and no port is opened.
C11_ConnectOnlyOnOpen ==
  [][(CallOf("connect") /\ ~isConnected) =>
       /\ isConnected' =>
            /\ ~ret'.raised /\ error' = NoError
            /\ portRef' # 0 /\ ~portOpen[portRef'] /\ portOpen'[portRef']
       /\ ~isConnected' => ret'.raised
       /\ ret'.raised =>
            /\ ~isConnected' /\ error' = ret'.msg
            /\ ret'.msg \in ConnectErrors
            /\ portOpen' = portOpen
       /\ ~hasSerial => (ret'.raised /\ ret'.msg = Unsupported)
    ]_vars

\* the first call was a connect whose port.open was rejected
C11_Witness ==
  /\ calls = 1 /\ ret.op = "connect" /\ ret.raised /\ ret.msg = OpenFailed
  /\ ~isConnected /\ error = OpenFailed /\ portRef # 0 /\ ~portOpen[portRef]

(* ------------------------------- C12 ---------------------------------- *)
OpenPorts == {p \in Ports : portOpen[p]}

\* C12: the engine holds at most one open transport handle.
C12_AtMostOneOpenHandle == Cardinality(OpenPorts) <= 1

(* ------------------------------- C13 ---------------------------------- *)
\* C13: every disconnect call returns normally, leaves connected false and
\* appends exactly one log entry, whether or not close succeeded.
C13_DisconnectAlwaysDisconnects ==
  [][CallOf("disconnect") =>
       /\ ~ret'.raised
       /\ isConnected' = FALSE
       /\ logs' = Append(logs, Entry("info", "Disconnected from device", "", 0, 0))
    ]_vars

\* a disconnect whose close was rejected: the port is still open
C13_Witness ==
  /\ ret.op = "disconnect" /\ ~ret.raised
  /\ portRef # 0 /\ portOpen[portRef]
  /\ ~isConnected
  /\ Last(logs).tag = "Disconnected from device"

(* ------------------------------- C14 ---------------------------------- *)
\* C14: clearLogs empties the log and leaves connected, flashing, progress
\* and error as they were.
C14_ClearLogsFrame ==
  [][CallOf("clearLogs") =>
       /\ logs' = <<>>
       /\ UNCHANGED <<isConnected, isFlashing, progress, error>>
    ]_vars

\* clearLogs has emptied the log of an engine with a failed job
C14_Witness ==
  /\ ret.op = "clearLogs" /\ logs = <<>>
  /\ error # NoError
  /\ \E j \in Jobs : jobs[j].pc = "failed" /\ jobs[j].err \in WriteErrors


(* ------------------------------- C17 ---------------------------------- *)
\* the step in which call j sets the state and issues the write of BEGIN
Starts(j) == jobs[j].pc = "idle" /\ jobs'[j].pc = "writing"

\* C17: when the write of a job's BEGIN frame is issued, flashing is true,
\* error is cleared and progress is {0, len(image), 0}, whatever an earlier
\* job has left in progress and error.
C17_StateAtBegin ==
  [][\A j \in Jobs :
       Starts(j) =>
         /\ jobs'[j].phase = "BEGIN"
         /\ isFlashing' = TRUE
         /\ error' = NoError
         /\ progress' = [current |-> 0, total |-> jobs'[j].n, percentage |-> 0]
    ]_vars

\* a job writes BEGIN after an earlier job has completed a larger image
C17_Witness ==
  \E j, k \in Jobs :
    /\ jobs[k].pc = "done" /\ jobs[k].n > jobs[j].n
    /\ jobs[j].pc = "writing" /\ jobs[j].phase = "BEGIN"
    /\ isFlashing /\ error = NoError
    /\ progress = [current |-> 0, total |-> jobs[j].n, percentage |-> 0]

(* ------------------------------- C18 ---------------------------------- *)
StartedLogs(n, off) ==
  << [type |-> "info", tag |-> "Starting firmware flash", text |-> "", a |-> 0, b |-> 0],
     [type |-> "info", tag |-> "File size", text |-> "", a |-> n, b |-> 0],
     [type |-> "info", tag |-> "Flash offset", text |-> "", a |-> off, b |-> 0] >>

FlashedLog(count, n) ==
  [type |-> "info", tag |-> "Flashed", text |-> "", a |-> count, b |-> n]

CompletedLog ==
  [type |-> "success", tag |-> "Firmware flash completed", text |-> "", a |-> 0, b |-> 0]

\* the k + 4 entries of a successful flash of n bytes
ExpectedLogs(n, off) ==
  StartedLogs(n, off)
    \o [k \in 1..CeilDiv(n, chunkSize) |-> FlashedLog(Min(k * chunkSize, n), n)]
    \o <<CompletedLog>>

\* C18: a successful flashFirmware appends three info entries (start, size,
\* offset) before the BEGIN write, one info entry with the cumulative byte
\* count after each DATA frame and before the next frame is written, and one
\* success entry after the END write; k + 4 entries for k chunks, and no
\* entry in any other step of the call.
C18_LogSequence ==
  /\ []((calls = 2 /\ jobs[1].pc = "done") =>
          logs = <<[type |-> "success", tag |-> "Connected to device",
                    text |-> "", a |-> 0, b |-> 0]>>
                 \o ExpectedLogs(jobs[1].n, jobs[1].off))
  /\ [][\A j \in Jobs :
          /\ Starts(j) =>
               (logs' = logs \o StartedLogs(jobs'[j].n, jobs'[j].off) /\ wire' = wire)
          /\ (jobs[j].pc = "waiting" /\ jobs[j].phase = "DATA" /\ jobs'[j].pc = "writing") =>
               /\ logs' = Append(logs, FlashedLog(Last(FramesBy(j)).chunk[2], jobs[j].n))
               /\ wire' = wire
          /\ (jobs[j].pc = "waiting" /\ jobs[j].phase = "BEGIN" /\ jobs'[j].pc = "writing") =>
               logs' = logs
          /\ (jobs[j].pc = "writing" /\ jobs'[j].pc = "waiting") =>
               logs' = logs
          /\ Completes(j) =>
               /\ logs' = Append(logs, CompletedLog)
               /\ Last(FramesBy(j)).cmd = 4
       ]_vars

\* connect and one successful flash of 257 bytes: 1 + 2 + 4 entries
C18_Witness ==
  /\ calls = 2 /\ jobs[1].pc = "done" /\ jobs[1].n = chunkSize + 1
  /\ Len(logs) = 7
  /\ logs[5].a = chunkSize /\ logs[6].a = chunkSize + 1

(* ------------------------------- C19 ---------------------------------- *)
\* C19: flashing implies connected.
C19_FlashingImpliesConnected == isFlashing => isConnected

(* ------------------------------- C20 ---------------------------------- *)
DataFramesBy(j) == Len(SelectSeq(FramesBy(j), LAMBDA f : f.cmd = 3))

\* C20: the step in which a call fails after it has written d DATA frames
\* leaves progress.current = min(256 * d, len(image)) and progress.total =
\* len(image), leaves progress untouched when it is the failure of a pending
\* write, and leaves connected as it was.
C20_FailureKeepsProgress ==
  [][\A j \in Jobs :
       (Raises(j) /\ jobs'[j].err \in WriteErrors) =>
         /\ progress'.current = Min(chunkSize * DataFramesBy(j), jobs'[j].n)
         /\ progress'.total = jobs'[j].n
         /\ jobs[j].pc = "writing" => progress' = progress
         /\ isConnected' = isConnected
    ]_vars

(* ------------------------------- C15 ---------------------------------- *)
\* the unsigned 32-bit number in the four bytes of hdr from position at on,
\* least significant byte first
DecodeLE(hdr, at) ==
  U32(hdr[at + 2] + 256 * hdr[at + 3], hdr[at] + 256 * hdr[at + 1])

\* C15: for every image length and offset in the unsigned 32-bit range the
\* BEGIN frame is 16 bytes, starts with the command byte 0x02, and its two
\* little-endian 4-byte fields decode to the image length and the offset.
C15_BeginRoundTrip ==
  begin.hdr # <<>> =>
    /\ Len(begin.hdr) = 16
    /\ begin.hdr[1] = 2
    /\ \A m \in 1..16 : begin.hdr[m] \in 0..255
    /\ DecodeLE(begin.hdr, 9) = begin.len
    /\ DecodeLE(begin.hdr, 13) = begin.off

\* a frame built for a length of 2^32 - 1 and an offset of 2^31 + 256
C15_Witness ==
  /\ begin.len = U32(65535, 65535) /\ begin.off = U32(32768, 256)
  /\ begin.hdr = <<2, 0, 0, 0, 0, 0, 0, 0, 255, 255, 255, 255, 0, 1, 0, 128>>

(* ------------------------------- C16 ---------------------------------- *)
\* C16: if every pending write eventually completes or fails and every
\* delay eventually fires, every flashFirmware call that has set flashing
\* to true ends and leaves flashing false, and the state never stays
\* flashing for ever.
C16_FlashingEnds ==
  /\ \A j \in Jobs : Running(j) ~> (~Running(j) /\ ~isFlashing)
  /\ isFlashing ~> ~isFlashing

\* a call has ended after END was written, another after a failed write,
\* and flashing is false
C16_Witness ==
  /\ ~isFlashing
  /\ \E j, k \in Jobs :
       /\ jobs[j].pc = "done" /\ Len(FramesBy(j)) >= 2
       /\ jobs[k].pc = "failed" /\ jobs[k].err = WriteIoError

(* ------------------------------- C21 ---------------------------------- *)
\* a disconnect() ends in this step, by returning or by raising
DisconnectEnds ==
  \/ dpc = "cancelling" /\ dpc' = "idle"
  \/ CallOf("disconnect") /\ dpc' = "idle"

\* the transport close is attempted in this step
CloseAttempted ==
  DisconnectEnds /\ ~ret'.raised /\ portRef # 0 /\ portOpen[portRef]

====
